---- MODULE Spec2Model ----
(***************************************************************************)
(* Model of the stats library (src/src/lib.rs): mean, stddev, median and   *)
(* l2 over a slice of f64.                                                 *)
(*                                                                         *)
(* f64 is modelled as a binary floating-point format of the same shape as  *)
(* IEEE 754 binary64, scaled down: Precision significand bits, gradual     *)
(* underflow, round-to-nearest-even, overflow to infinity, NaN.  A finite  *)
(* value is held as an integer number of quanta, one quantum being         *)
(* 2^-FracBits (the smallest subnormal).  Zero is unsigned: 0.0 and -0.0   *)
(* compare equal in the source and are one value here.                     *)
(***************************************************************************)
EXTENDS Integers, Sequences, FiniteSets

VARIABLES xs, fn, result

vars == <<xs, fn, result>>

(* ---------------- bounds of the model ---------------- *)

\* significand bits of the scaled-down f64
Precision == 3
\* 1.0 is 2^FracBits quanta
FracBits == 2
\* largest exponent of a quantum multiple: MaxFinite = (2^Precision - 1) * 2^MaxExp
MaxExp == 3
\* longest input slice
MaxLen == 5

(* ---------------- f64 ---------------- *)

RECURSIVE Pow2(_)
Pow2(n) == IF n = 0 THEN 1 ELSE 2 * Pow2(n - 1)

One == Pow2(FracBits)

MaxFinite == (Pow2(Precision) - 1) * Pow2(MaxExp)

Fin(v) == [k |-> "fin", v |-> v]
Inf(s) == [k |-> "inf", v |-> s]
NaN == [k |-> "nan", v |-> 0]

Zero == Fin(0)

Sign(n) == IF n < 0 THEN -1 ELSE 1
Abs(n) == IF n < 0 THEN -n ELSE n

\* the exponent of the binade a/d falls in: the least e with a/(d*2^e) < 2^Precision
RECURSIVE ExpOf(_, _, _)
ExpOf(a, d, e) ==
    IF a \div (d * Pow2(e)) < Pow2(Precision) THEN e ELSE ExpOf(a, d, e + 1)

\* |n|/d rounded to nearest, ties to even, in quanta
RoundMag(a, d) ==
    LET e == ExpOf(a, d, 0)
        q == d * Pow2(e)
        m == a \div q
        rem == a - m * q
        mr == IF 2 * rem > q THEN m + 1
              ELSE IF 2 * rem = q THEN m + (m % 2)
              ELSE m
    IN  mr * Pow2(e)

\* the f64 nearest to the real n/d quanta (d > 0)
Round(n, d) ==
    LET r == RoundMag(Abs(n), d)
    IN  IF r > MaxFinite THEN Inf(Sign(n)) ELSE Fin(Sign(n) * r)

RECURSIVE ISqrt(_, _)
ISqrt(n, r) == IF (r + 1) * (r + 1) > n THEN r ELSE ISqrt(n, r + 1)

RECURSIVE SqrtExp(_, _)
SqrtExp(n, e) ==
    IF ISqrt(n \div Pow2(2 * e), 0) < Pow2(Precision) THEN e ELSE SqrtExp(n, e + 1)

\* sqrt(n) quanta^2 rounded to nearest, ties to even, in quanta
RoundSqrt(n) ==
    LET e == SqrtExp(n, 0)
        m == ISqrt(n \div Pow2(2 * e), 0)
        h == (2 * m + 1) * (2 * m + 1) * Pow2(2 * e)
        mr == IF 4 * n > h THEN m + 1
              ELSE IF 4 * n = h THEN m + (m % 2)
              ELSE m
    IN  mr * Pow2(e)

FNeg(a) == IF a.k = "nan" THEN NaN ELSE [k |-> a.k, v |-> -a.v]

FAdd(a, b) ==
    IF a.k = "nan" \/ b.k = "nan" THEN NaN
    ELSE IF a.k = "inf" /\ b.k = "inf" THEN (IF a.v = b.v THEN a ELSE NaN)
    ELSE IF a.k = "inf" THEN a
    ELSE IF b.k = "inf" THEN b
    ELSE Round(a.v + b.v, 1)

FSub(a, b) == FAdd(a, FNeg(b))

FDiv(a, b) ==
    IF a.k = "nan" \/ b.k = "nan" THEN NaN
    ELSE IF a.k = "inf" THEN (IF b.k = "inf" THEN NaN ELSE Inf(a.v * Sign(b.v)))
    ELSE IF b.k = "inf" THEN Zero
    ELSE IF b.v = 0 THEN (IF a.v = 0 THEN NaN ELSE Inf(Sign(a.v)))
    ELSE Round(Sign(b.v) * a.v * One, Abs(b.v))

\* x.powf(2.0)
Powf2(a) ==
    IF a.k = "nan" THEN NaN
    ELSE IF a.k = "inf" THEN Inf(1)
    ELSE Round(a.v * a.v, One)

FSqrt(a) ==
    IF a.k = "nan" THEN NaN
    ELSE IF a.k = "inf" THEN (IF a.v = 1 THEN a ELSE NaN)
    ELSE IF a.v < 0 THEN NaN
    ELSE Fin(RoundSqrt(a.v * One))

\* the f64 operator ==
FEq(a, b) == a.k # "nan" /\ b.k # "nan" /\ a = b

\* the f64 operator <
FLt(a, b) ==
    /\ a.k # "nan" /\ b.k # "nan"
    /\ \/ a.k = "fin" /\ b.k = "fin" /\ a.v < b.v
       \/ a.k = "inf" /\ a.v = -1 /\ b # a
       \/ b.k = "inf" /\ b.v = 1 /\ b # a

\* the f64 operator >=
FGe(a, b) == FEq(a, b) \/ FLt(b, a)

(* ---------------- Option<f64> and the outcome of a call ---------------- *)

Some(v) == [tag |-> "Some", val |-> v]
None == [tag |-> "None", val |-> Zero]
\* the call did not return: a panic (index out of bounds, unwrap of None,
\* unimplemented!())
Panic == [tag |-> "Panic", val |-> Zero]
\* no call made yet
NoResult == [tag |-> "NoResult", val |-> Zero]

(* ---------------- mean ---------------- *)

\* SumFrom with the accumulation written "sum = x" for "sum += x"
SumLast(acc, nums) == IF nums = <<>> THEN acc ELSE nums[Len(nums)]

\* nums.iter().sum(): left-to-right accumulation
RECURSIVE SumFrom(_, _)
SumFrom(acc, nums) ==
    IF nums = <<>> THEN acc ELSE SumFrom(FAdd(acc, Head(nums)), Tail(nums))

\* let mut counter = 0.0; for i in nums { counter += 1.0; }
RECURSIVE CountFrom(_, _)
CountFrom(acc, nums) ==
    IF nums = <<>> THEN acc ELSE CountFrom(FAdd(acc, Fin(One)), Tail(nums))

\* Mean taking a zero sum for an ill-defined statistic
MeanNoneOnZeroSum(nums) ==
    LET sum == SumFrom(Zero, nums)
        counter == CountFrom(Zero, nums)
    IN  IF FEq(sum, Zero) THEN None ELSE Some(FDiv(sum, counter))

Mean(nums) ==
    LET sum == SumFrom(Zero, nums)
        counter == CountFrom(Zero, nums)
    IN  IF FEq(sum, Zero) THEN Some(Zero) ELSE Some(FDiv(sum, counter))

(* ---------------- stddev ---------------- *)

\* SumSqDevFrom without the subtraction of the mean
RECURSIVE SumSqFrom(_, _, _)
SumSqFrom(acc, nums, m) ==
    IF nums = <<>> THEN acc
    ELSE SumSqFrom(FAdd(acc, Powf2(Head(nums))), Tail(nums), m)

\* for j in nums { sum += (j - meanvalue.unwrap()).powf(2.0); }
RECURSIVE SumSqDevFrom(_, _, _)
SumSqDevFrom(acc, nums, m) ==
    IF nums = <<>> THEN acc
    ELSE SumSqDevFrom(FAdd(acc, Powf2(FSub(Head(nums), m))), Tail(nums), m)

\* Stddev dividing by N - 1: the sample standard deviation
StddevSample(nums) ==
    LET meanvalue == Mean(nums)
        count == CountFrom(Zero, nums)
    IN  IF nums # <<>> /\ meanvalue.tag # "Some" THEN Panic
        ELSE LET sum == FSqrt(FDiv(SumSqDevFrom(Zero, nums, meanvalue.val),
                                   FSub(count, Fin(One))))
             IN  IF FEq(count, Zero) THEN None ELSE Some(sum)

Stddev(nums) ==
    LET meanvalue == Mean(nums)
        count == CountFrom(Zero, nums)
    IN  IF nums # <<>> /\ meanvalue.tag # "Some" THEN Panic
        ELSE LET sum == FSqrt(FDiv(SumSqDevFrom(Zero, nums, meanvalue.val), count))
             IN  IF FEq(count, Zero) THEN None ELSE Some(sum)

(* ---------------- median ---------------- *)

\* place x in the ascending sequence s, after the elements equal to it
RECURSIVE Insert(_, _)
Insert(x, s) ==
    IF s = <<>> THEN <<x>>
    ELSE IF FLt(x, Head(s)) THEN <<x>> \o s
    ELSE <<Head(s)>> \o Insert(x, Tail(s))

\* nums.sort_by(|a, b| a.partial_cmp(b).unwrap()): stable, ascending
RECURSIVE SortFrom(_, _)
SortFrom(done, nums) ==
    IF nums = <<>> THEN done ELSE SortFrom(Insert(Head(nums), done), Tail(nums))

\* partial_cmp(..).unwrap() panics when a comparison meets a NaN
SortPanics(nums) == Len(nums) >= 2 /\ \E i \in 1..Len(nums) : nums[i].k = "nan"

\* MedianIndex one too low for an even length
MedianIndexLow(n) ==
    IF n = 0 THEN 0 ELSE IF n % 2 # 0 THEN (n - 1) \div 2 ELSE n \div 2 - 1

\* length and index as the match at the end of median finds them
MedianLength(n) == IF n = 0 THEN 0 ELSE IF n % 2 # 0 THEN 1 ELSE 2
MedianIndex(n) == IF n = 0 THEN 0 ELSE IF n % 2 # 0 THEN (n - 1) \div 2 ELSE n \div 2

\* the 0-based indices of the sorted copy the match arm reads
MedianReads(n) ==
    LET length == MedianLength(n)
        index == MedianIndex(n)
    IN  IF length = 1 THEN {length}
        ELSE IF length = 2 THEN {index, index - 1}
        ELSE {}

\* MedianRun sorting the caller's slice in place
MedianRunInPlace(nums) ==
    LET sorted == SortFrom(<<>>, nums)
        n == Len(sorted)
        length == MedianLength(n)
        index == MedianIndex(n)
        ret == IF SortPanics(nums) THEN Panic
               ELSE IF \E i \in MedianReads(n) : i < 0 \/ i >= n THEN Panic
               ELSE IF length = 0 THEN None
               ELSE IF length = 1 THEN Some(sorted[length + 1])
               ELSE Some(FDiv(FAdd(sorted[index + 1], sorted[index]), Fin(2 * One)))
    IN  [caller |-> sorted, copy |-> sorted, ret |-> ret]

\* the caller's slice, the private copy and the outcome of median(nums)
MedianRun(nums) ==
    LET owned == nums
        sorted == SortFrom(<<>>, owned)
        n == Len(sorted)
        length == MedianLength(n)
        index == MedianIndex(n)
        ret == IF SortPanics(owned) THEN Panic
               ELSE IF \E i \in MedianReads(n) : i < 0 \/ i >= n THEN Panic
               ELSE IF length = 0 THEN None
               ELSE IF length = 1 THEN Some(sorted[length + 1])
               ELSE Some(FDiv(FAdd(sorted[index + 1], sorted[index]), Fin(2 * One)))
    IN  [caller |-> nums, copy |-> sorted, ret |-> ret]

Median(nums) == MedianRun(nums).ret

(* ---------------- l2 ---------------- *)

\* unimplemented!()
L2(nums) == Panic

(* ---------------- calls ---------------- *)

\* the finite sample values a caller passes
Values == {Fin(-One), Zero, Fin(One \div 2), Fin(One), Fin(3 * One)}

Samples == UNION {[1..n -> Values] : n \in 0..MaxLen}

Init ==
    /\ xs \in Samples
    /\ fn = "none"
    /\ result = NoResult

CallMean ==
    /\ fn' = "mean"
    /\ result' = Mean(xs)
    /\ xs' = xs

CallStddev ==
    /\ fn' = "stddev"
    /\ result' = Stddev(xs)
    /\ xs' = xs

CallMedian ==
    /\ fn' = "median"
    /\ result' = MedianRun(xs).ret
    /\ xs' = MedianRun(xs).caller

CallL2 ==
    /\ fn' = "l2"
    /\ result' = L2(xs)
    /\ xs' = xs

Next == CallMean \/ CallStddev \/ CallMedian \/ CallL2

Spec == Init /\ [][Next]_vars

(* ---------------- reference notions the properties are stated with ---------------- *)

\* the f64 nearest to the integer n
FromInt(n) == Round(n * One, 1)

FLe(a, b) == FLt(a, b) \/ FEq(a, b)

\* element k (0-based) of nums in ascending order, as an order statistic
Kth(nums, k) ==
    CHOOSE v \in {nums[i] : i \in 1..Len(nums)} :
        /\ Cardinality({i \in 1..Len(nums) : FLt(nums[i], v)}) <= k
        /\ Cardinality({i \in 1..Len(nums) : FLe(nums[i], v)}) > k

\* x_1 + ... + x_i, accumulated left to right
RECURSIVE SumTo(_, _)
SumTo(nums, i) == IF i = 0 THEN Zero ELSE FAdd(SumTo(nums, i - 1), nums[i])

\* (x_1 - m)^2 + ... + (x_i - m)^2, accumulated left to right
RECURSIVE SumSqDevTo(_, _, _)
SumSqDevTo(nums, i, m) ==
    IF i = 0 THEN Zero
    ELSE FAdd(SumSqDevTo(nums, i - 1, m), Powf2(FSub(nums[i], m)))

AllEqual(nums) == \A i \in 1..Len(nums) : nums[i] = nums[1]

\* the reorderings of nums
Reorderings(nums) ==
    LET n == Len(nums)
    IN  {[i \in 1..n |-> nums[p[i]]] :
            p \in {q \in [1..n -> 1..n] : \A i, j \in 1..n : q[i] = q[j] => i = j}}

IsOdd(n) == n % 2 = 1
IsEven(n) == n % 2 = 0

(* ---------------- properties ---------------- *)

\* C1: for every input of odd length n >= 1, median returns Some(s[(n-1)/2]),
\* s being the input in ascending order; for n = 1 and n = 5 as for n = 3.
C1_MedianOddIsMiddle ==
    (fn = "median" /\ IsOdd(Len(xs)))
        => result = Some(Kth(xs, (Len(xs) - 1) \div 2))

\* C2: for every non-empty input, l2 returns Some(sqrt(sum of x_i^2)).
C2_L2IsRootOfSquares ==
    (fn = "l2" /\ xs # <<>>)
        => result = Some(FSqrt(SumSqDevTo(xs, Len(xs), Zero)))

\* C3: on the empty sequence each of the four functions returns its documented
\* value: mean Some(0.0), stddev None, median None, l2 Some(0.0).
C3_EmptyInputResults ==
    xs = <<>> =>
        /\ fn = "mean" => result = Some(Zero)
        /\ fn = "stddev" => result = None
        /\ fn = "median" => result = None
        /\ fn = "l2" => result = Some(Zero)

\* C4: for every finite input of any length no call aborts: it returns an
\* Option value, and every index median reads is within its sorted copy.
C4_NoCallAborts ==
    /\ fn # "none" => result.tag \in {"Some", "None"}
    /\ fn = "median" => \A i \in MedianReads(Len(xs)) : 0 <= i /\ i < Len(xs)

C6_MeanIsSumOverCount ==
    fn = "mean" =>
        /\ result.tag = "Some"
        /\ xs # <<>> =>
              FEq(result.val, FDiv(SumTo(xs, Len(xs)), FromInt(Len(xs))))

C6_Witness ==
    /\ fn = "mean"
    /\ Len(xs) >= 2
    /\ xs[1] # Zero
    /\ FEq(SumTo(xs, Len(xs)), Zero)
    /\ result = Some(Zero)

\* C7: for every non-empty input of N elements stddev returns
\* Some(sqrt(sum((x_i - m)^2) / N)), m the unwrapped mean: division by N.
C7_StddevIsPopulation ==
    (fn = "stddev" /\ xs # <<>>)
        => result = Some(FSqrt(FDiv(SumSqDevTo(xs, Len(xs), Mean(xs).val),
                                    FromInt(Len(xs)))))

C7_Witness ==
    /\ fn = "stddev"
    /\ Len(xs) >= 2
    /\ result.tag = "Some"
    /\ result.val.k = "fin"
    /\ result.val.v > 0

\* C8 as stated: for every non-empty all-equal input stddev returns Some(0.0),
\* and for every non-empty input the value returned is >= 0.
C8_AllEqualIsZero ==
    (fn = "stddev" /\ xs # <<>>) =>
        /\ AllEqual(xs) => result = Some(Zero)
        /\ result.tag = "Some" /\ FGe(result.val, Zero)

\* C8 amended: for every non-empty all-equal input whose mean is computed
\* exactly (mean returns the common element, as it always does for a single
\* element) stddev returns Some(0.0); for every non-empty input the value
\* returned is >= 0.
C8_ExactMeanIsZero ==
    (fn = "stddev" /\ xs # <<>>) =>
        /\ (AllEqual(xs) /\ FEq(Mean(xs).val, xs[1])) => result = Some(Zero)
        /\ Len(xs) = 1 => result = Some(Zero)
        /\ result.tag = "Some" /\ FGe(result.val, Zero)

C8_Witness ==
    /\ fn = "stddev"
    /\ Len(xs) >= 2
    /\ AllEqual(xs)
    /\ xs[1] # Zero
    /\ result = Some(Zero)

\* C9: a call to median, mean or stddev leaves the caller's sequence as it
\* was: the same elements in the same order.
C9_CallerSliceUnchanged ==
    [][fn' \in {"median", "mean", "stddev"} => xs' = xs]_vars

C9_Witness ==
    /\ fn = "median"
    /\ xs # MedianRun(xs).copy
    /\ result.tag = "Some"

\* C10 as stated: stddev of every reordering of the input equals stddev of
\* the input.
C10_ReorderingInvariant ==
    fn = "stddev" => \A p \in Reorderings(xs) : Stddev(p) = result

\* C10 amended: stddev of every reordering of an input of at most two
\* elements equals stddev of the input.
C10_ReorderingUpToTwo ==
    (fn = "stddev" /\ Len(xs) <= 2)
        => \A p \in Reorderings(xs) : Stddev(p) = result

C10_Witness ==
    /\ fn = "stddev"
    /\ Len(xs) = 2
    /\ xs[1] # xs[2]
    /\ result.tag = "Some"
    /\ result.val # Zero

====
